---- MODULE Spec2Model ----
(***************************************************************************)
(* Model of the "Ephemeral TODO List" service (src/client/app/main.py):    *)
(* collections ("lists") and items ("tasks") kept in a memcached cache     *)
(* through single-key get/set/delete, plus the process-wide set of known   *)
(* list identifiers that drives the backup.  Every request handler is a    *)
(* sequence of steps, one per cache round trip, run by a worker thread;    *)
(* the cache may drop any key at any time and the process may restart.     *)
(***************************************************************************)
EXTENDS Integers, Sequences, FiniteSets, TLC

VARIABLES
    cache,              \* memcached: key -> stored record (present keys only)
    task_list_id_set,   \* main.py:45, the process-wide set of known list ids
    th,                 \* worker threads: position, arguments, locals
    response,           \* the response to the request that finished last
    nops,               \* number of requests admitted past their first check
    nenv                \* number of evictions and restarts so far

vars == <<cache, task_list_id_set, th, response, nops, nenv>>

----------------------------------------------------------------------------
(* Bounds of the model *)

MaxOps == 4          \* requests admitted, concurrent specifications
MaxSeqOps == 4       \* requests admitted, one at a time
MaxCascadeOps == 5   \* requests admitted, SpecCascade
MaxEnv == 1          \* evictions and restarts

Threads == {1, 2}

\* Strings are sequences of characters, so that str.replace and the key
\* formats are computed and not assumed.
ListNames == { <<"a">>, <<"a", " ", "b">> }
TaskNames == { <<"c">>, <<"b", " ", "c">> }
OneListName == { <<"a", " ", "b">> }

None == "<None>"
ListDescriptions == {None}
TaskDescriptions == {"d1"}
DueDates == {"t1"}
Timestamps == {"01-Jan-2022 (10:00:00)", "02-Jan-2022 (10:00:00)"}
OneTimestamp == {"01-Jan-2022 (10:00:00)"}

----------------------------------------------------------------------------
(* Data classes and pure helpers *)

TaskStatus == {"Assigned", "In Process", "Pending", "Closed", "Canceled"}

\* str.replace(' ', '_')
replace(s) == [i \in 1..Len(s) |-> IF s[i] = " " THEN "_" ELSE s[i]]

\* f'task-list-key_{list_id}'
task_list_key(list_id) ==
    <<"t","a","s","k","-","l","i","s","t","-","k","e","y","_">> \o list_id

\* f'task-key_{list_id}_{task_id}'
task_key(list_id, task_id) ==
    <<"t","a","s","k","-","k","e","y","_">> \o list_id \o <<"_">> \o task_id

\* The identifiers the store derives from a set of names
Ids(names) == {replace(n) : n \in names}
ListIds == Ids(ListNames)
TaskIds == Ids(TaskNames)

\* Request bodies
TaskList(names) == [name : names, description : ListDescriptions]
Task(names) == [name : names, description : TaskDescriptions,
                status : {"Assigned"}, due_date : {None}]
Unset == "<unset>"
UpdatedTaskData ==
    [description : {Unset, None},
     status : {Unset, "Closed"},
     due_date : {Unset} \cup DueDates]

\* TaskListInDB(list_id=list_id, **dict(data)), creation_date stamped now
TaskListInDB(list_id, data, now) ==
    [name |-> data.name, description |-> data.description,
     list_id |-> list_id, creation_date |-> now, tasks |-> <<>>]

\* TaskInDB(task_id=task_id, assigned_list=list_id, **dict(task_data))
TaskInDB(task_id, list_id, data, now) ==
    [name |-> data.name, description |-> data.description,
     status |-> data.status, due_date |-> data.due_date,
     task_id |-> task_id, assigned_list |-> list_id, creation_date |-> now]

\* memcached primitives
Has(c, k) == k \in DOMAIN c
CacheSet(c, k, v) == [x \in DOMAIN c \cup {k} |-> IF x = k THEN v ELSE c[x]]
CacheDelete(c, k) == [x \in DOMAIN c \ {k} |-> c[x]]

\* list.remove (first occurrence), membership, number of occurrences
Count(s, x) == Cardinality({i \in 1..Len(s) : s[i] = x})
Elems(s) == {s[i] : i \in 1..Len(s)}
FirstIndex(s, x) == CHOOSE i \in 1..Len(s) : s[i] = x /\ \A j \in 1..(i-1) : s[j] # x
RemoveFirst(s, x) ==
    LET k == FirstIndex(s, x)
    IN  [i \in 1..(Len(s) - 1) |-> IF i < k THEN s[i] ELSE s[i + 1]]

----------------------------------------------------------------------------
(* Worker threads *)

Nil == [nil |-> TRUE]

IdleThread ==
    [pc |-> "idle", op |-> "none", list_id |-> <<>>, task_id |-> <<>>,
     expand |-> FALSE, data |-> Nil, list_data |-> Nil, task_data |-> Nil, idx |-> 0,
     visited |-> {}, snap |-> {}, acc |-> <<>>, out |-> Nil, ret |-> "none"]

NoResponse == [op |-> "none", list_id |-> <<>>, task_id |-> <<>>, ret |-> "none", out |-> Nil]

\* A request arrives at an idle worker
Begin(op, list_id, task_id, data) ==
    [IdleThread EXCEPT !.op = op, !.list_id = list_id, !.task_id = task_id,
                       !.data = data]

\* The handler returns (or raises HTTPException / an unhandled error)
Finish(r, ret, out) == [r EXCEPT !.pc = "done", !.ret = ret, !.out = out]

\* Thread t moves to r; when the handler is done the response goes out and
\* the worker is idle again
Step(t, r) ==
    /\ th' = [th EXCEPT ![t] = IF r.pc = "done" THEN IdleThread ELSE r]
    /\ response' = IF r.pc = "done"
                   THEN [op |-> r.op, list_id |-> r.list_id, task_id |-> r.task_id,
                         ret |-> r.ret, out |-> r.out]
                   ELSE response

\* A request goes to the first idle worker
CanStart(t) ==
    /\ th[t].pc = "idle"
    /\ \A u \in Threads : u < t => th[u].pc # "idle"

\* A request arrives at idle worker t and runs to r, its first cache access.
\* Requests that get past that access count against the bound of the model.
Admit(t, r) ==
    /\ Step(t, r)
    /\ nops' = IF r.pc = "done" \/ r.op = "get_list" THEN nops ELSE nops + 1

Init ==
    /\ cache = <<>>
    /\ task_list_id_set = {}
    /\ th = [t \in Threads |-> IdleThread]
    /\ response = NoResponse
    /\ nops = 0
    /\ nenv = 0

----------------------------------------------------------------------------
(* create_list, main.py:137-145 *)

\* create_list without the existence check of line 140
create_list_no_check(t, data) ==
    LET list_id == replace(data.name)
        r == Begin("create_list", list_id, <<>>, data)
    IN  /\ CanStart(t)
        /\ Admit(t, [r EXCEPT !.pc = "create_list_set"])
        /\ UNCHANGED <<cache, task_list_id_set, nenv>>

\* 139-141: derive the id, existence check
create_list(t, data) ==
    LET list_id == replace(data.name)
        r == Begin("create_list", list_id, <<>>, data)
    IN  /\ CanStart(t)
        /\ IF Has(cache, task_list_key(list_id))
           THEN Admit(t, Finish(r, "409", Nil))
           ELSE Admit(t, [r EXCEPT !.pc = "create_list_set"])
        /\ UNCHANGED <<cache, task_list_id_set, nenv>>

\* create_list writing with memcached's add: the write fails when the key is
\* there by now
create_list_set_if_absent(t, now) ==
    LET r == th[t]
        rec == TaskListInDB(r.list_id, r.data, now)
    IN  /\ r.pc = "create_list_set"
        /\ IF Has(cache, task_list_key(r.list_id))
           THEN /\ cache' = cache
                /\ Step(t, Finish(r, "409", Nil))
           ELSE /\ cache' = CacheSet(cache, task_list_key(r.list_id), rec)
                /\ Step(t, [r EXCEPT !.pc = "create_list_add", !.list_data = rec])
        /\ UNCHANGED <<task_list_id_set, nops, nenv>>

\* 142-143: build the record and write it
create_list_set(t, now) ==
    LET r == th[t]
        rec == TaskListInDB(r.list_id, r.data, now)
    IN  /\ r.pc = "create_list_set"
        /\ cache' = CacheSet(cache, task_list_key(r.list_id), rec)
        /\ Step(t, [r EXCEPT !.pc = "create_list_add", !.list_data = rec])
        /\ UNCHANGED <<task_list_id_set, nops, nenv>>

\* create_list returning without recording the id
create_list_add_skip(t) ==
    LET r == th[t]
    IN  /\ r.pc = "create_list_add"
        /\ task_list_id_set' = task_list_id_set
        /\ Step(t, Finish(r, "201", r.list_data))
        /\ UNCHANGED <<cache, nops, nenv>>

\* 144-145: record the id and return
create_list_add(t) ==
    LET r == th[t]
    IN  /\ r.pc = "create_list_add"
        /\ task_list_id_set' = task_list_id_set \cup {r.list_id}
        /\ Step(t, Finish(r, "201", r.list_data))
        /\ UNCHANGED <<cache, nops, nenv>>

----------------------------------------------------------------------------
(* get_list, main.py:148-157 (also called by make_backup) *)

\* An entry of TaskListInDB.tasks, List[Union[str, TaskInDB]], that is a str
Bare(task_id) == [bare |-> task_id]
IsBare(e) == "bare" \in DOMAIN e

\* 157: return list_data, to the client or into make_backup's comprehension
get_list_return(r, out) ==
    IF r.op = "make_backup"
    THEN [r EXCEPT !.pc = "make_backup_next", !.acc = Append(r.acc, out),
                   !.list_data = Nil, !.idx = 0]
    ELSE Finish(r, "202", out)

\* 150-153: read and parse the list record
get_list_read(r, c) ==
    LET key == task_list_key(r.list_id)
        stored == c[key]
        list_data == [stored EXCEPT !.tasks = [i \in 1..Len(stored.tasks) |-> Bare(stored.tasks[i])]]
    IN  IF ~Has(c, key)
        THEN Finish(r, "404 list", Nil)
        ELSE IF r.expand /\ Len(stored.tasks) > 0
             THEN [r EXCEPT !.pc = "get_list_task", !.list_data = list_data, !.idx = 1]
             ELSE get_list_return(r, list_data)

get_list(t, list_id, get_task_data) ==
    LET r == [Begin("get_list", list_id, <<>>, Nil) EXCEPT !.expand = get_task_data]
    IN  /\ CanStart(t)
        /\ Admit(t, get_list_read(r, cache))
        /\ UNCHANGED <<cache, task_list_id_set, nenv>>

\* An expansion loop that gives up on a member whose task key misses
get_list_task_strict(t) ==
    LET r == th[t]
        i == r.idx
        key == task_key(r.list_id, r.list_data.tasks[i].bare)
        list_data == [r.list_data EXCEPT !.tasks[i] = cache[key]]
    IN  /\ r.pc = "get_list_task"
        /\ Step(t, IF ~Has(cache, key)
                   THEN Finish(r, "404 task", Nil)
                   ELSE IF i < Len(r.list_data.tasks)
                        THEN [r EXCEPT !.list_data = list_data, !.idx = i + 1]
                        ELSE get_list_return(r, list_data))
        /\ UNCHANGED <<cache, task_list_id_set, nops, nenv>>

\* 154-156: one iteration of the expansion loop
get_list_task(t) ==
    LET r == th[t]
        i == r.idx
        key == task_key(r.list_id, r.list_data.tasks[i].bare)
        list_data == IF Has(cache, key)
                     THEN [r.list_data EXCEPT !.tasks[i] = cache[key]]
                     ELSE r.list_data
    IN  /\ r.pc = "get_list_task"
        /\ Step(t, IF i < Len(r.list_data.tasks)
                    THEN [r EXCEPT !.list_data = list_data, !.idx = i + 1]
                    ELSE get_list_return(r, list_data))
        /\ UNCHANGED <<cache, task_list_id_set, nops, nenv>>

----------------------------------------------------------------------------
(* delete_list, main.py:160-180, and delete_tasks, main.py:48-50 *)

\* 166-170: existence check, read the members
delete_list(t, list_id) ==
    LET r == Begin("delete_list", list_id, <<>>, Nil)
        key == task_list_key(list_id)
    IN  /\ CanStart(t)
        /\ IF ~Has(cache, key)
           THEN Admit(t, Finish(r, "404 list", Nil))
           ELSE Admit(t, [r EXCEPT !.pc = IF Len(cache[key].tasks) > 0
                                         THEN "delete_tasks" ELSE "delete_list_key",
                                  !.list_data = cache[key], !.idx = 1])
        /\ UNCHANGED <<cache, task_list_id_set, nenv>>

\* 49-50: one iteration of delete_tasks
delete_tasks(t) ==
    LET r == th[t]
        i == r.idx
    IN  /\ r.pc = "delete_tasks"
        /\ cache' = CacheDelete(cache, task_key(r.list_id, r.list_data.tasks[i]))
        /\ Step(t, [r EXCEPT !.idx = i + 1,
                              !.pc = IF i < Len(r.list_data.tasks)
                                     THEN "delete_tasks" ELSE "delete_list_key"])
        /\ UNCHANGED <<task_list_id_set, nops, nenv>>

\* 174: delete the list key
delete_list_key(t) ==
    LET r == th[t]
    IN  /\ r.pc = "delete_list_key"
        /\ cache' = CacheDelete(cache, task_list_key(r.list_id))
        /\ Step(t, [r EXCEPT !.pc = "delete_list_remove"])
        /\ UNCHANGED <<task_list_id_set, nops, nenv>>

\* 175-180: set.remove raises KeyError when the id is not in the set
delete_list_remove(t) ==
    LET r == th[t]
    IN  /\ r.pc = "delete_list_remove"
        /\ IF r.list_id \in task_list_id_set
           THEN /\ task_list_id_set' = task_list_id_set \ {r.list_id}
                /\ Step(t, Finish(r, "200", [deleted_tasks |-> r.list_data.tasks]))
           ELSE /\ task_list_id_set' = task_list_id_set
                /\ Step(t, Finish(r, "500", Nil))
        /\ UNCHANGED <<cache, nops, nenv>>

----------------------------------------------------------------------------
(* add_task, main.py:186-208 *)

\* 189-190: the list must exist; its record is kept for the update below
add_task(t, list_id, task_data) ==
    LET r == Begin("add_task", list_id, replace(task_data.name), task_data)
        key == task_list_key(list_id)
    IN  /\ CanStart(t)
        /\ IF ~Has(cache, key)
           THEN Admit(t, Finish(r, "404 list", Nil))
           ELSE Admit(t, [r EXCEPT !.pc = "add_task_check",
                                                  !.list_data = cache[key]])
        /\ UNCHANGED <<cache, task_list_id_set, nenv>>

\* 193-197: the task must not exist
add_task_check(t) ==
    LET r == th[t]
    IN  /\ r.pc = "add_task_check"
        /\ IF Has(cache, task_key(r.list_id, r.task_id))
           THEN Step(t, Finish(r, "409", Nil))
           ELSE Step(t, [r EXCEPT !.pc = "add_task_set"])
        /\ UNCHANGED <<cache, task_list_id_set, nops, nenv>>

\* add_task writing the list record before the task key
add_task_set_members_first(t, now) ==
    LET r == th[t]
        rec == TaskInDB(r.task_id, r.list_id, r.data, now)
        list_data == [r.list_data EXCEPT !.tasks = Append(r.list_data.tasks, r.task_id)]
    IN  /\ r.pc = "add_task_set"
        /\ cache' = CacheSet(cache, task_list_key(r.list_id), list_data)
        /\ Step(t, [r EXCEPT !.pc = "add_task_update", !.task_data = rec])
        /\ UNCHANGED <<task_list_id_set, nops, nenv>>

\* 200-201: build the task and write it
add_task_set(t, now) ==
    LET r == th[t]
        rec == TaskInDB(r.task_id, r.list_id, r.data, now)
    IN  /\ r.pc = "add_task_set"
        /\ cache' = CacheSet(cache, task_key(r.list_id, r.task_id), rec)
        /\ Step(t, [r EXCEPT !.pc = "add_task_update", !.task_data = rec])
        /\ UNCHANGED <<task_list_id_set, nops, nenv>>

\* 204-205: the members written back: the record read at line 189, plus the id
add_task_members(list_data, task_id) == Append(list_data.tasks, task_id)

\* add_task appending to the list record as stored at the time of the write
add_task_update_stored(t) ==
    LET r == th[t]
        key == task_list_key(r.list_id)
        stored == IF Has(cache, key) THEN cache[key] ELSE r.list_data
        list_data == [stored EXCEPT !.tasks = Append(stored.tasks, r.task_id)]
    IN  /\ r.pc = "add_task_update"
        /\ cache' = CacheSet(cache, key, list_data)
        /\ Step(t, Finish(r, "201", r.task_data))
        /\ UNCHANGED <<task_list_id_set, nops, nenv>>

\* 204-208: append the id to the list record read at line 189 and write it
add_task_update(t) ==
    LET r == th[t]
        list_data == [r.list_data EXCEPT !.tasks = add_task_members(r.list_data, r.task_id)]
    IN  /\ r.pc = "add_task_update"
        /\ cache' = CacheSet(cache, task_list_key(r.list_id), list_data)
        /\ Step(t, Finish(r, "201", r.task_data))
        /\ UNCHANGED <<task_list_id_set, nops, nenv>>

----------------------------------------------------------------------------
(* edit_task, main.py:211-225 *)

\* 214-215: the task must exist
edit_task(t, list_id, task_id, updated_task_data) ==
    LET r == Begin("edit_task", list_id, task_id, updated_task_data)
        key == task_key(list_id, task_id)
    IN  /\ CanStart(t)
        /\ IF ~Has(cache, key)
           THEN Admit(t, Finish(r, "404 task", Nil))
           ELSE Admit(t, [r EXCEPT !.pc = "edit_task_set",
                                                  !.task_data = cache[key]])
        /\ UNCHANGED <<cache, task_list_id_set, nenv>>

UpdatableFields == {"description", "status", "due_date"}

\* 219: updated_task_data.dict(exclude_unset=True)
SetFields(upd) == {f \in UpdatableFields : upd[f] # Unset}

\* A full overwrite: the fields left unset are written as None
update_all(task_data, upd) ==
    [f \in DOMAIN task_data |->
        IF f \in UpdatableFields
        THEN (IF upd[f] # Unset THEN upd[f] ELSE None)
        ELSE task_data[f]]

\* 222: task_data.update(updated_task_data)
update(task_data, upd) ==
    [f \in DOMAIN task_data |->
        IF f \in SetFields(upd) THEN upd[f] ELSE task_data[f]]

\* 223: TaskInDB(**task_data) validates: description is a str, status a
\* TaskStatus; due_date (str = None) may be None
ValidTask(task_data) ==
    /\ task_data.description # None
    /\ task_data.status \in TaskStatus

\* edit_task writing only while the task key is present
edit_task_set_if_present(t) ==
    LET r == th[t]
        task_data == update(r.task_data, r.data)
        key == task_key(r.list_id, r.task_id)
    IN  /\ r.pc = "edit_task_set"
        /\ IF ~ValidTask(task_data)
           THEN /\ cache' = cache
                /\ Step(t, Finish(r, "500", Nil))
           ELSE IF Has(cache, key)
                THEN /\ cache' = CacheSet(cache, key, task_data)
                     /\ Step(t, Finish(r, "200", task_data))
                ELSE /\ cache' = cache
                     /\ Step(t, Finish(r, "404 task", Nil))
        /\ UNCHANGED <<task_list_id_set, nops, nenv>>

\* 218-225: merge, validate, write
edit_task_set(t) ==
    LET r == th[t]
        task_data == update(r.task_data, r.data)
    IN  /\ r.pc = "edit_task_set"
        /\ IF ValidTask(task_data)
           THEN /\ cache' = CacheSet(cache, task_key(r.list_id, r.task_id), task_data)
                /\ Step(t, Finish(r, "200", task_data))
           ELSE /\ cache' = cache
                /\ Step(t, Finish(r, "500", Nil))
        /\ UNCHANGED <<task_list_id_set, nops, nenv>>

----------------------------------------------------------------------------
(* get_task, main.py:228-232 *)

get_task(t, list_id, task_id) ==
    LET r == Begin("get_task", list_id, task_id, Nil)
        key == task_key(list_id, task_id)
    IN  /\ CanStart(t)
        /\ Admit(t, IF Has(cache, key)
                                   THEN Finish(r, "200", cache[key])
                                   ELSE Finish(r, "404 task", Nil))
        /\ UNCHANGED <<cache, task_list_id_set, nenv>>

----------------------------------------------------------------------------
(* delete_task, main.py:235-258 *)

\* delete_task that deletes the task key before it looks at the list
delete_task_item_first(t, list_id, task_id) ==
    LET r == Begin("delete_task", list_id, task_id, Nil)
        key == task_list_key(list_id)
    IN  /\ CanStart(t)
        /\ cache' = CacheDelete(cache, task_key(list_id, task_id))
        /\ IF ~Has(cache, key)
           THEN Admit(t, Finish(r, "404 list", Nil))
           ELSE Admit(t, [r EXCEPT !.pc = "delete_task_update",
                                   !.list_data = cache[key]])
        /\ UNCHANGED <<task_list_id_set, nenv>>

\* 241-242: the list must exist; its record is kept for the update below
delete_task(t, list_id, task_id) ==
    LET r == Begin("delete_task", list_id, task_id, Nil)
        key == task_list_key(list_id)
    IN  /\ CanStart(t)
        /\ IF ~Has(cache, key)
           THEN Admit(t, Finish(r, "404 list", Nil))
           ELSE Admit(t, [r EXCEPT !.pc = "delete_task_delete",
                                                  !.list_data = cache[key]])
        /\ UNCHANGED <<cache, task_list_id_set, nenv>>

\* delete_task taking the id out of the stored list before it reports a
\* missing task key
delete_task_delete_cleanup(t) ==
    LET r == th[t]
        key == task_key(r.list_id, r.task_id)
        tasks == r.list_data.tasks
    IN  /\ r.pc = "delete_task_delete"
        /\ IF Has(cache, key)
           THEN /\ cache' = CacheDelete(cache, key)
                /\ Step(t, [r EXCEPT !.pc = "delete_task_update"])
           ELSE /\ cache' = IF r.task_id \in Elems(tasks)
                            THEN CacheSet(cache, task_list_key(r.list_id),
                                          [r.list_data EXCEPT !.tasks = RemoveFirst(tasks, r.task_id)])
                            ELSE cache
                /\ Step(t, Finish(r, "404 task", Nil))
        /\ UNCHANGED <<task_list_id_set, nops, nenv>>

\* 245-246: delete the task key; a miss is NotFound
delete_task_delete(t) ==
    LET r == th[t]
        key == task_key(r.list_id, r.task_id)
    IN  /\ r.pc = "delete_task_delete"
        /\ IF Has(cache, key)
           THEN /\ cache' = CacheDelete(cache, key)
                /\ Step(t, [r EXCEPT !.pc = "delete_task_update"])
           ELSE /\ cache' = cache
                /\ Step(t, Finish(r, "404 task", Nil))
        /\ UNCHANGED <<task_list_id_set, nops, nenv>>

\* delete_task writing the list record only while the list key is present
delete_task_update_if_present(t) ==
    LET r == th[t]
        tasks == r.list_data.tasks
    IN  /\ r.pc = "delete_task_update"
        /\ IF r.task_id \in Elems(tasks) /\ Has(cache, task_list_key(r.list_id))
           THEN cache' = CacheSet(cache, task_list_key(r.list_id),
                                  [r.list_data EXCEPT !.tasks = RemoveFirst(tasks, r.task_id)])
           ELSE cache' = cache
        /\ Step(t, Finish(r, "200", Nil))
        /\ UNCHANGED <<task_list_id_set, nops, nenv>>

\* 249-258: remove the id from the list record read at line 241 and write it;
\* list.remove raising ValueError skips the write
delete_task_update(t) ==
    LET r == th[t]
        tasks == r.list_data.tasks
    IN  /\ r.pc = "delete_task_update"
        /\ IF r.task_id \in Elems(tasks)
           THEN cache' = CacheSet(cache, task_list_key(r.list_id),
                                  [r.list_data EXCEPT !.tasks = RemoveFirst(tasks, r.task_id)])
           ELSE cache' = cache
        /\ Step(t, Finish(r, "200", Nil))
        /\ UNCHANGED <<task_list_id_set, nops, nenv>>

----------------------------------------------------------------------------
(* make_backup, main.py:261-266 *)

\* 263: next() of the iterator over task_list_id_set, then the call of
\* get_list(task_list, get_task_data=True); 264-266 when the set is exhausted.
\* A set iterator raises RuntimeError when the set's size changed since the
\* iterator was made; when the size is the same and the content is not, the
\* slots it has yet to scan may or may not hold the elements it has not seen.
backup_next(t, r) ==
    IF Cardinality(task_list_id_set) # Cardinality(r.snap)
    THEN Step(t, Finish(r, "500", Nil))
    ELSE \/ \E task_list \in task_list_id_set \ r.visited :
               Step(t, get_list_read([r EXCEPT !.list_id = task_list,
                                                !.visited = @ \cup {task_list}], cache))
         \/ /\ task_list_id_set \subseteq r.visited \/ task_list_id_set # r.snap
            /\ Step(t, Finish(r, "201", [data |-> r.acc]))

make_backup(t) ==
    LET r == [Begin("make_backup", <<>>, <<>>, Nil) EXCEPT
                 !.expand = TRUE, !.snap = task_list_id_set]
    IN  /\ CanStart(t)
        /\ backup_next(t, r)
        /\ UNCHANGED <<cache, task_list_id_set, nops, nenv>>

make_backup_next(t) ==
    /\ th[t].pc = "make_backup_next"
    /\ backup_next(t, th[t])
    /\ UNCHANGED <<cache, task_list_id_set, nops, nenv>>

----------------------------------------------------------------------------
(* The environment *)

\* memcached drops a key
Evict(k) ==
    /\ Has(cache, k)
    /\ nenv < MaxEnv
    /\ nenv' = nenv + 1
    /\ cache' = CacheDelete(cache, k)
    /\ UNCHANGED <<task_list_id_set, th, response, nops>>

\* The process restarts (main.py:45 runs again): the set is empty, the
\* requests in flight are gone, the cache is another process and stays
startup ==
    /\ \A t \in Threads : th[t].pc = "idle"
    /\ nenv < MaxEnv
    /\ nenv' = nenv + 1
    /\ task_list_id_set' = {}
    /\ th' = [t \in Threads |-> IdleThread]
    /\ UNCHANGED <<cache, response, nops>>

----------------------------------------------------------------------------
(* Specifications *)

\* A request arrives, its names drawn from LN and TN
Request(t, LN, TN) ==
    \/ \E data \in TaskList(LN) : create_list(t, data)
    \/ \E list_id \in Ids(LN), get_task_data \in BOOLEAN : get_list(t, list_id, get_task_data)
    \/ \E list_id \in Ids(LN) : delete_list(t, list_id)
    \/ \E list_id \in Ids(LN), task_data \in Task(TN) : add_task(t, list_id, task_data)
    \/ \E list_id \in Ids(LN), task_id \in Ids(TN), upd \in UpdatedTaskData :
          edit_task(t, list_id, task_id, upd)
    \/ \E list_id \in Ids(LN), task_id \in Ids(TN) : get_task(t, list_id, task_id)
    \/ \E list_id \in Ids(LN), task_id \in Ids(TN) : delete_task(t, list_id, task_id)
    \/ make_backup(t)

\* A request in progress takes its next step, at a time drawn from TS
Continue(t, TS) ==
    \/ \E now \in TS : create_list_set(t, now)
    \/ create_list_add(t)
    \/ get_list_task(t)
    \/ delete_tasks(t)
    \/ delete_list_key(t)
    \/ delete_list_remove(t)
    \/ add_task_check(t)
    \/ \E now \in TS : add_task_set(t, now)
    \/ add_task_update(t)
    \/ edit_task_set(t)
    \/ delete_task_delete(t)
    \/ delete_task_update(t)
    \/ make_backup_next(t)

AllIdle == \A t \in Threads : th[t].pc = "idle"
OthersIdle(t) == \A u \in Threads \ {t} : th[u].pc = "idle"

\* Requests served concurrently by the worker threads, with eviction and restart
Next ==
    \/ \E t \in Threads : nops < MaxOps /\ Request(t, OneListName, TaskNames)
    \/ \E t \in Threads : Continue(t, OneTimestamp)
    \/ \E k \in DOMAIN cache : Evict(k)
    \/ startup

Spec == Init /\ [][Next]_vars

\* Requests served concurrently, no eviction and no restart
NextNoEvict ==
    \/ \E t \in Threads : nops < MaxOps /\ Request(t, OneListName, TaskNames)
    \/ \E t \in Threads : Continue(t, Timestamps)

SpecNoEvict == Init /\ [][NextNoEvict]_vars

\* Requests served concurrently, no eviction and no restart, in the schedules
\* where nothing else runs between a request's task write in add_task and its
\* write of the list record
Appending(t) == th[t].pc = "add_task_update"

NextAppend ==
    \/ \E t \in Threads :
          /\ nops < MaxOps
          /\ \A u \in Threads : ~Appending(u)
          /\ Request(t, OneListName, TaskNames)
    \/ \E t \in Threads :
          /\ \A u \in Threads \ {t} : ~Appending(u)
          /\ Continue(t, OneTimestamp)

SpecAppend == Init /\ [][NextAppend]_vars

\* create_list and delete_list calls only, served concurrently, on the same
\* or different ids, no eviction and no restart
NextLists ==
    \/ \E t \in Threads :
          /\ nops < MaxOps
          /\ \/ \E data \in TaskList(ListNames) : create_list(t, data)
             \/ \E list_id \in ListIds : delete_list(t, list_id)
    \/ \E t \in Threads :
          \/ \E now \in OneTimestamp : create_list_set(t, now)
          \/ create_list_add(t)
          \/ delete_list_key(t)
          \/ delete_list_remove(t)

SpecLists == Init /\ [][NextLists]_vars

\* Requests served one at a time, evictions and restarts between them
NextSeq ==
    \/ \E t \in Threads : AllIdle /\ nops < MaxSeqOps /\ Request(t, ListNames, TaskNames)
    \/ \E t \in Threads : OthersIdle(t) /\ Continue(t, Timestamps)
    \/ \E k \in DOMAIN cache : AllIdle /\ Evict(k)
    \/ startup

SpecSeq == Init /\ [][NextSeq]_vars

\* Creations and deletions only, one at a time, no eviction and no restart,
\* over names whose item keys collide
NextCascade ==
    \/ \E t \in Threads :
          /\ AllIdle /\ nops < MaxCascadeOps
          /\ \/ \E data \in TaskList(ListNames) : create_list(t, data)
             \/ \E list_id \in ListIds : delete_list(t, list_id)
             \/ \E list_id \in ListIds, task_data \in Task(TaskNames) : add_task(t, list_id, task_data)
             \/ \E list_id \in ListIds, task_id \in TaskIds : delete_task(t, list_id, task_id)
    \/ \E t \in Threads :
          /\ OthersIdle(t)
          /\ \/ \E now \in OneTimestamp : create_list_set(t, now)
             \/ create_list_add(t)
             \/ delete_tasks(t)
             \/ delete_list_key(t)
             \/ delete_list_remove(t)
             \/ add_task_check(t)
             \/ \E now \in OneTimestamp : add_task_set(t, now)
             \/ add_task_update(t)
             \/ delete_task_delete(t)
             \/ delete_task_update(t)

SpecCascade == Init /\ [][NextCascade]_vars

----------------------------------------------------------------------------
(* Properties *)

\* The step is the arrival of a request op(list_id, task_id): either the
\* request is now in progress at a worker, or it has already been answered
Called(op, list_id, task_id) ==
    \/ \E t \in Threads :
          /\ th[t].pc = "idle" /\ th'[t].pc # "idle"
          /\ th'[t].op = op /\ th'[t].list_id = list_id /\ th'[t].task_id = task_id
    \/ /\ th' = th /\ response' # response
       /\ response'.op = op /\ response'.list_id = list_id /\ response'.task_id = task_id

\* Thread t takes the step at position pc
At(t, pc) == th[t].pc = pc /\ th'[t] # th[t]

\* The members stored for list_id
Members(c, list_id) == c[task_list_key(list_id)].tasks

\* C1: one at a time, create_list on a name whose derived id already has a
\* list record fails with 409 and leaves the cache (so the stored record:
\* name, description, creation date, tasks) and task_list_id_set as they were.
C1_CreateExistingFails ==
    [][\A list_id \in ListIds :
          (Has(cache, task_list_key(list_id)) /\ Called("create_list", list_id, <<>>))
          => /\ th' = th
             /\ response'.ret = "409"
             /\ cache' = cache
             /\ task_list_id_set' = task_list_id_set]_vars

C1_Witness ==
    /\ response.op = "create_list" /\ response.ret = "409"
    /\ Has(cache, task_list_key(response.list_id))
    /\ Len(Members(cache, response.list_id)) > 0
    /\ response.list_id \in task_list_id_set

\* C2: after any sequence of completed requests and evictions of task keys,
\* no stored list holds a task id more than once.
C2_NoDuplicateMembers ==
    AllIdle =>
        \A list_id \in ListIds :
            Has(cache, task_list_key(list_id)) =>
                \A task_id \in TaskIds : Count(Members(cache, list_id), task_id) <= 1

\* C3: one at a time, after delete_list(C) succeeds, get_list(C) and
\* get_task(C, id), for every id that was in C's tasks, are NotFound until a
\* later create_list(C) / add_task(C, id) writes them again: while the
\* successful delete_list is the last request answered, the list key is absent
\* unless a create_list(C) in progress has written it, and each such task key
\* is absent unless an add_task(C, id) in progress has written it.
C3_CascadeNotFound ==
    (response.op = "delete_list" /\ response.ret = "200") =>
        LET list_id == response.list_id
        IN  /\ Has(cache, task_list_key(list_id)) =>
                  \E t \in Threads : /\ th[t].op = "create_list"
                                     /\ th[t].list_id = list_id
                                     /\ th[t].pc = "create_list_add"
            /\ \A task_id \in Elems(response.out.deleted_tasks) :
                  Has(cache, task_key(list_id, task_id)) =>
                      \E t \in Threads : /\ th[t].op = "add_task"
                                         /\ th[t].list_id = list_id
                                         /\ th[t].task_id = task_id
                                         /\ th[t].pc = "add_task_update"

\* C4: one at a time, with list C present, delete_task(C, X) twice in a row on
\* an existing task X: the first call succeeds, removes the task key and
\* leaves X out of C's tasks; the second fails with 404 for the task and leaves
\* the cache, so C's tasks, as the first call left it.
C4_DeleteTwice ==
    [][\A t \in Threads :
          LET r == th[t]
              key == task_key(r.list_id, r.task_id)
              list_key == task_list_key(r.list_id)
          IN  /\ At(t, "delete_task_update") =>
                    /\ response'.ret = "200"
                    /\ ~Has(cache', key)
                    /\ Has(cache', list_key) => r.task_id \notin Elems(Members(cache', r.list_id))
              /\ (/\ At(t, "delete_task_delete")
                  /\ response.op = "delete_task" /\ response.ret = "200"
                  /\ response.list_id = r.list_id /\ response.task_id = r.task_id)
                 => /\ response'.op = "delete_task" /\ response'.ret = "404 task"
                    /\ cache' = cache]_vars

\* C5 as stated: an edit_task that succeeds on an existing task overwrites
\* exactly the fields supplied and leaves every other field of the stored
\* task, every other key and task_list_id_set unchanged.
C5_EditOverwritesSupplied ==
    [][\A t \in Threads :
          LET r == th[t]
              key == task_key(r.list_id, r.task_id)
          IN  (At(t, "edit_task_set") /\ Has(cache, key) /\ response'.ret = "200") =>
                 /\ Has(cache', key)
                 /\ \A f \in DOMAIN cache[key] :
                       cache'[key][f] = IF f \in SetFields(r.data) THEN r.data[f]
                                        ELSE cache[key][f]
                 /\ \A k \in (DOMAIN cache \cup DOMAIN cache') \ {key} :
                       Has(cache, k) /\ Has(cache', k) /\ cache'[k] = cache[k]
                 /\ task_list_id_set' = task_list_id_set]_vars

\* C5 amended: edit_task writes no key other than the task's own and leaves
\* task_list_id_set alone; when it succeeds, the record it writes is the
\* record it read at its existence check with exactly the supplied fields
\* overwritten, so the other fields of the stored task are unchanged whenever
\* the stored task is still the one it read; when the merged record fails
\* TaskInDB validation (description None) it answers 500 and writes nothing.
C5_EditFrame ==
    [][\A t \in Threads :
          LET r == th[t]
              key == task_key(r.list_id, r.task_id)
          IN  At(t, "edit_task_set") =>
                 /\ \A k \in (DOMAIN cache \cup DOMAIN cache') \ {key} :
                       Has(cache, k) /\ Has(cache', k) /\ cache'[k] = cache[k]
                 /\ task_list_id_set' = task_list_id_set
                 /\ response'.op = "edit_task" /\ response'.ret \in {"200", "500"}
                 /\ response'.ret = "500" =>
                       /\ cache' = cache
                       /\ \E f \in SetFields(r.data) : r.data[f] = None
                 /\ response'.ret = "200" =>
                       /\ Has(cache', key)
                       /\ \A f \in DOMAIN r.task_data :
                             cache'[key][f] = IF f \in SetFields(r.data) THEN r.data[f]
                                              ELSE r.task_data[f]
                       /\ (Has(cache, key) /\ cache[key] = r.task_data) =>
                             \A f \in DOMAIN cache[key] \ SetFields(r.data) :
                                 cache'[key][f] = cache[key][f]]_vars

\* A successful edit_task of status alone: the stored task has the new status
\* and kept its description and due date
C5_Witness ==
    /\ response.op = "edit_task" /\ response.ret = "200"
    /\ Has(cache, task_key(response.list_id, response.task_id))
    /\ LET task == cache[task_key(response.list_id, response.task_id)]
       IN  /\ task = response.out
           /\ task.status = "Closed"
           /\ task.description \in TaskDescriptions
           /\ task.due_date = None

\* C6: get_list(C, get_task_data=True) on a stored list never fails because a
\* member's task key is gone: it fails only when the list key misses at its
\* read; the entries it returns follow the stored order; each iteration
\* replaces its member by the record under the member's task key when that
\* key is present and leaves the bare id when it is not; it ends with 202;
\* and no step of it changes the cache or task_list_id_set.
C6_TolerantExpansion ==
    [][/\ \A list_id \in ListIds :
             Called("get_list", list_id, <<>>) =>
                /\ cache' = cache /\ task_list_id_set' = task_list_id_set
                /\ (th' = th /\ response'.ret # "202") =>
                      /\ response'.ret = "404 list"
                      /\ ~Has(cache, task_list_key(list_id))
                /\ \A t \in Threads :
                      (th[t].pc = "idle" /\ th'[t].pc = "get_list_task") =>
                         /\ Has(cache, task_list_key(list_id))
                         /\ th'[t].list_data.tasks =
                               [i \in 1..Len(Members(cache, list_id)) |->
                                   Bare(Members(cache, list_id)[i])]
       /\ \A t \in Threads :
             LET r == th[t]
                 i == r.idx
                 task_id == r.list_data.tasks[i].bare
                 key == task_key(r.list_id, task_id)
                 res == IF th'[t].pc = "idle" THEN response'.out ELSE th'[t].list_data
             IN  (At(t, "get_list_task") /\ r.op = "get_list") =>
                    /\ cache' = cache /\ task_list_id_set' = task_list_id_set
                    /\ th'[t].pc = "idle" <=> i = Len(r.list_data.tasks)
                    /\ th'[t].pc = "idle" => response'.ret = "202"
                    /\ th'[t].pc # "idle" => th'[t].pc = "get_list_task" /\ th'[t].idx = i + 1
                    /\ Len(res.tasks) = Len(r.list_data.tasks)
                    /\ res.tasks[i] = IF Has(cache, key) THEN cache[key] ELSE Bare(task_id)
                    /\ \A j \in 1..Len(res.tasks) :
                          j # i => res.tasks[j] = r.list_data.tasks[j]]_vars

\* An expansion answered with one member expanded and another, whose task
\* key is gone, left as a bare id
C6_Witness ==
    /\ response.op = "get_list" /\ response.ret = "202"
    /\ \E i, j \in 1..Len(response.out.tasks) :
          /\ IsBare(response.out.tasks[i])
          /\ ~Has(cache, task_key(response.list_id, response.out.tasks[i].bare))
          /\ ~IsBare(response.out.tasks[j])

\* C7: make_backup never fails because the list key of an id in
\* task_list_id_set is gone from the cache: one at a time, every make_backup
\* ends with 201.
C7_ExportSkipsEvicted ==
    response.op = "make_backup" => response.ret = "201"

\* C8: delete_list fails only when the list key misses at its existence check:
\* its only failure is the 404 for the list.
C8_DeleteListOnlyNotFound ==
    response.op = "delete_list" => response.ret \in {"200", "404 list"}

\* C9: delete_task(C, X) checks the list first: when C's list key is absent it
\* answers 404 for the list at once and deletes nothing, so a task key of
\* (C, X) that is present stays present.
C9_DeleteTaskChecksListFirst ==
    [][\A list_id \in ListIds, task_id \in TaskIds :
          (Called("delete_task", list_id, task_id) /\ ~Has(cache, task_list_key(list_id)))
          => /\ th' = th
             /\ response'.ret = "404 list"
             /\ cache' = cache
             /\ task_list_id_set' = task_list_id_set]_vars

\* delete_task answered 404 for the list while the task key is still there
C9_Witness ==
    /\ response.op = "delete_task" /\ response.ret = "404 list"
    /\ ~Has(cache, task_list_key(response.list_id))
    /\ Has(cache, task_key(response.list_id, response.task_id))

\* C10: without eviction, under any interleaving, whenever add_task or
\* delete_task writes a list record, every id in the tasks it writes has its
\* task record in the cache at that moment.
C10_NoDanglingWritten ==
    [][\A t \in Threads :
          LET r == th[t]
              writes == \/ At(t, "add_task_update")
                        \/ At(t, "delete_task_update") /\ r.task_id \in Elems(r.list_data.tasks)
          IN  writes =>
                 /\ Has(cache', task_list_key(r.list_id))
                 /\ \A task_id \in Elems(Members(cache', r.list_id)) :
                       Has(cache', task_key(r.list_id, task_id))]_vars

\* C11: the task key identifies one (list, task) pair and is never a list
\* key: for every pair of identifiers the store derives, the task key of the
\* pair differs from every list key, and a record stored under it is the
\* record of that pair, so that an operation on the pair reads, overwrites or
\* deletes no other task's record.
C11_ItemKeyInjective ==
    \A list_id \in ListIds, task_id \in TaskIds :
        LET key == task_key(list_id, task_id)
        IN  /\ \A other \in ListIds : key # task_list_key(other)
            /\ Has(cache, key) => /\ cache[key].assigned_list = list_id
                                  /\ cache[key].task_id = task_id

\* The keys other than those in K are the same before and after the step
OnlyWrites(K) ==
    \A k \in (DOMAIN cache \cup DOMAIN cache') \ K :
        Has(cache, k) /\ Has(cache', k) /\ cache'[k] = cache[k]

\* C12: within one add_task the write of the task key comes before the write
\* of the list record: its two checks write nothing; its next step writes the
\* task key and nothing else; only the step after that writes the list record
\* listing the id, and it is taken only by a request that has written its task
\* record.  So a request between its steps has written nothing or the task
\* key alone.
C12_ItemWriteFirst ==
    [][/\ \A list_id \in ListIds, task_id \in TaskIds :
             Called("add_task", list_id, task_id) => cache' = cache
       /\ \A t \in Threads :
             LET r == th[t]
                 key == task_key(r.list_id, r.task_id)
                 list_key == task_list_key(r.list_id)
             IN  /\ At(t, "add_task_check") =>
                       /\ cache' = cache
                       /\ r.task_data = Nil
                       /\ th'[t].pc \in {"idle", "add_task_set"}
                 /\ At(t, "add_task_set") =>
                       /\ r.task_data = Nil
                       /\ th'[t].pc = "add_task_update"
                       /\ Has(cache', key) /\ cache'[key] = th'[t].task_data
                       /\ cache'[key].task_id = r.task_id
                       /\ OnlyWrites({key})
                 /\ At(t, "add_task_update") =>
                       /\ r.task_data # Nil /\ r.task_data.task_id = r.task_id
                       /\ Has(cache', list_key)
                       /\ r.task_id \in Elems(Members(cache', r.list_id))
                       /\ OnlyWrites({list_key})
                       /\ th'[t].pc = "idle" /\ response'.ret = "201"]_vars

\* An add_task between its two writes: the task key is written, the stored
\* list does not list the id yet
C12_Witness ==
    \E t \in Threads :
        /\ th[t].op = "add_task" /\ th[t].pc = "add_task_update"
        /\ Has(cache, task_key(th[t].list_id, th[t].task_id))
        /\ Has(cache, task_list_key(th[t].list_id))
        /\ th[t].task_id \notin Elems(Members(cache, th[t].list_id))

\* C13: add_task builds the tasks it writes from the list record stored after
\* its own task write, appending the id only if absent: in the schedules where
\* nothing else runs between its task write and its list write, the tasks it
\* writes are the tasks stored at that moment, with the id appended unless
\* it is there already, so that what other requests completed before its
\* task write is kept.
C13_AppendsToStoredMembers ==
    [][\A t \in Threads :
          LET r == th[t]
              list_key == task_list_key(r.list_id)
          IN  (At(t, "add_task_update") /\ Has(cache, list_key)) =>
                 /\ Has(cache', list_key)
                 /\ Members(cache', r.list_id) =
                       IF r.task_id \in Elems(Members(cache, r.list_id))
                       THEN Members(cache, r.list_id)
                       ELSE Append(Members(cache, r.list_id), r.task_id)]_vars

\* C14: the check and the write of create_list are not atomic: a create_list
\* that has passed its existence check writes its record whatever the key
\* holds by then, overwriting a record another create_list wrote in between,
\* and answers 201; so two concurrent calls for one id can both succeed and
\* the record left is the one written last.
C14_CreateLastWriterWins ==
    [][\A t \in Threads :
          LET r == th[t]
              key == task_list_key(r.list_id)
          IN  /\ At(t, "create_list_set") =>
                    /\ th'[t].pc = "create_list_add"
                    /\ Has(cache', key) /\ cache'[key] = th'[t].list_data
                    /\ cache'[key].name = r.data.name /\ cache'[key].tasks = <<>>
                    /\ OnlyWrites({key})
              /\ At(t, "create_list_add") =>
                    /\ cache' = cache
                    /\ th'[t].pc = "idle"
                    /\ response'.op = "create_list" /\ response'.ret = "201"
                    /\ response'.out = r.list_data]_vars

\* Two create_list calls for one id and no other request: the first has
\* answered 201 with its record, the second wrote after it and is about to
\* answer 201, and the stored record is the second's
C14_Witness ==
    /\ nops = 2
    /\ response.op = "create_list" /\ response.ret = "201"
    /\ \E t \in Threads :
          /\ th[t].op = "create_list" /\ th[t].pc = "create_list_add"
          /\ th[t].list_id = response.list_id
          /\ Has(cache, task_list_key(response.list_id))
          /\ cache[task_list_key(response.list_id)] = th[t].list_data
          /\ th[t].list_data # response.out

\* C15: the read-modify-write of the tasks of a list is not atomic: the list
\* record add_task writes is the record it read at its first check with its
\* id appended, whatever the key holds by then, and it answers 201; so of two
\* concurrent add_task calls for distinct tasks of one list both can succeed
\* and the list written last drops the other's id.
C15_AddWritesStaleMembers ==
    [][\A t \in Threads :
          LET r == th[t]
              list_key == task_list_key(r.list_id)
          IN  At(t, "add_task_update") =>
                 /\ Has(cache', list_key)
                 /\ cache'[list_key] =
                       [r.list_data EXCEPT !.tasks = Append(r.list_data.tasks, r.task_id)]
                 /\ response'.op = "add_task" /\ response'.ret = "201"
                 /\ response'.out = r.task_data]_vars

\* A list created and two add_task calls for distinct tasks, nothing else:
\* both answered, both task keys are stored, the list holds one id only
C15_Witness ==
    /\ AllIdle /\ nops = 3
    /\ response.op = "add_task" /\ response.ret = "201"
    /\ \E list_id \in ListIds :
          /\ Has(cache, task_list_key(list_id))
          /\ \A task_id \in TaskIds :
                /\ Has(cache, task_key(list_id, task_id))
                /\ cache[task_key(list_id, task_id)].task_id = task_id
          /\ Cardinality(TaskIds) = 2
          /\ Len(Members(cache, list_id)) = 1

\* C16: a make_backup that iterates task_list_id_set while create_list adds
\* an id or delete_list removes one in another thread never fails because the
\* set changed during its iteration: no make_backup ends with the unhandled
\* RuntimeError (500).
C16_BackupSurvivesSetChange ==
    response.op = "make_backup" => response.ret # "500"

\* C17 as stated: without eviction, under any interleaving, a list key that
\* is absent becomes present only by the write of a create_list for that id.
C17_OnlyCreateMakesListPresent ==
    [][\A list_id \in ListIds :
          (~Has(cache, task_list_key(list_id)) /\ Has(cache', task_list_key(list_id))) =>
              \E t \in Threads : At(t, "create_list_set") /\ th[t].list_id = list_id]_vars

\* C17 amended: a list key that is absent becomes present only by the write
\* of a create_list for that id or by the list write of an add_task or
\* delete_task for that id that read the list record while it was present;
\* and such an add_task or delete_task does write the record it read, with
\* its id appended or removed, back under a list key that has been deleted
\* meanwhile.
C17_ListKeyWriters ==
    [][/\ \A list_id \in ListIds :
             (~Has(cache, task_list_key(list_id)) /\ Has(cache', task_list_key(list_id))) =>
                 \E t \in Threads :
                    /\ th[t].list_id = list_id
                    /\ \/ At(t, "create_list_set")
                       \/ At(t, "add_task_update") /\ th[t].list_data # Nil
                       \/ At(t, "delete_task_update") /\ th[t].list_data # Nil
       /\ \A t \in Threads :
             LET r == th[t]
                 list_key == task_list_key(r.list_id)
             IN  /\ (At(t, "add_task_update") /\ ~Has(cache, list_key)) =>
                       /\ Has(cache', list_key)
                       /\ cache'[list_key] =
                             [r.list_data EXCEPT !.tasks = Append(r.list_data.tasks, r.task_id)]
                 /\ (/\ At(t, "delete_task_update") /\ ~Has(cache, list_key)
                     /\ r.task_id \in Elems(r.list_data.tasks)) =>
                       /\ Has(cache', list_key)
                       /\ cache'[list_key] =
                             [r.list_data EXCEPT !.tasks = RemoveFirst(r.list_data.tasks, r.task_id)]]_vars

\* Three requests only: a list created, a task added and the list deleted; delete_list answered and the id left
\* task_list_id_set, yet the list key is stored, written back by add_task
C17_Witness ==
    /\ AllIdle /\ nops = 3
    /\ response.op = "add_task" /\ response.ret = "201"
    /\ Has(cache, task_list_key(response.list_id))
    /\ response.task_id \in Elems(Members(cache, response.list_id))
    /\ response.list_id \notin task_list_id_set

\* C18 as stated: without eviction, under any interleaving, a task key that
\* is absent becomes present only by the write of an add_task for that list
\* and task.
C18_OnlyAddMakesTaskPresent ==
    [][\A list_id \in ListIds, task_id \in TaskIds :
          (/\ ~Has(cache, task_key(list_id, task_id))
           /\ Has(cache', task_key(list_id, task_id))) =>
              \E t \in Threads : /\ At(t, "add_task_set")
                                 /\ task_key(th[t].list_id, th[t].task_id) =
                                       task_key(list_id, task_id)]_vars

\* C18 amended: a task key that is absent becomes present only by the write
\* of an add_task or by the write of an edit_task that read the task while it
\* was present; and such an edit_task, when its merged record is valid, does
\* write that record back under a task key that has been deleted meanwhile
\* and answers 200.
C18_TaskKeyWriters ==
    [][/\ \A list_id \in ListIds, task_id \in TaskIds :
             (/\ ~Has(cache, task_key(list_id, task_id))
              /\ Has(cache', task_key(list_id, task_id))) =>
                 \E t \in Threads :
                    /\ task_key(th[t].list_id, th[t].task_id) = task_key(list_id, task_id)
                    /\ \/ At(t, "add_task_set")
                       \/ At(t, "edit_task_set") /\ th[t].task_data # Nil
       /\ \A t \in Threads :
             LET r == th[t]
                 key == task_key(r.list_id, r.task_id)
             IN  (/\ At(t, "edit_task_set") /\ ~Has(cache, key)
                  /\ ValidTask(update(r.task_data, r.data))) =>
                    /\ Has(cache', key)
                    /\ cache'[key] = update(r.task_data, r.data)
                    /\ response'.op = "edit_task" /\ response'.ret = "200"]_vars

\* A list created, a task added, edited and deleted, nothing else: the
\* delete_task has deleted the task key and has yet to update the list; the
\* edit_task answered 200 and the task key holds the record it wrote
C18_Witness ==
    /\ nops = 4
    /\ response.op = "edit_task" /\ response.ret = "200"
    /\ Has(cache, task_key(response.list_id, response.task_id))
    /\ cache[task_key(response.list_id, response.task_id)] = response.out
    /\ \E t \in Threads :
          /\ th[t].op = "delete_task" /\ th[t].pc = "delete_task_update"
          /\ th[t].list_id = response.list_id /\ th[t].task_id = response.task_id

\* The ids whose list key is in the cache
StoredListIds == {list_id \in ListIds : Has(cache, task_list_key(list_id))}

\* C19 as stated: without eviction and restart, whenever no request is in
\* progress, task_list_id_set is the set of ids whose list key is stored,
\* whatever the interleaving of the create_list and delete_list calls was.
C19_SetMatchesStoredLists ==
    AllIdle => task_list_id_set = StoredListIds

\* task_list_id_set matches the stored list keys, allowing for the one
\* request in progress, for which what it checked or wrote still holds: a
\* create_list finds its key absent before its write and present after it, a
\* delete_list finds its key present before its delete and absent after it,
\* a create_list that has written its key has not yet recorded the id, a
\* delete_list that has deleted its key has not yet removed the id
MatchesAlone ==
    /\ Cardinality({t \in Threads : th[t].pc # "idle"}) <= 1
    /\ \A t \in Threads :
          /\ th[t].pc = "create_list_set" => ~Has(cache, task_list_key(th[t].list_id))
          /\ th[t].pc \in {"delete_tasks", "delete_list_key", "create_list_add"} =>
                Has(cache, task_list_key(th[t].list_id))
          /\ th[t].pc = "delete_list_remove" => ~Has(cache, task_list_key(th[t].list_id))
    /\ \A list_id \in ListIds :
          LET creating == \E t \in Threads : /\ th[t].pc = "create_list_add"
                                             /\ th[t].list_id = list_id
              deleting == \E t \in Threads : /\ th[t].pc = "delete_list_remove"
                                             /\ th[t].list_id = list_id
          IN  list_id \in task_list_id_set <=>
                 \/ Has(cache, task_list_key(list_id)) /\ ~creating
                 \/ deleting

\* C19 amended: without eviction and restart, a request that runs with no
\* other request in progress keeps task_list_id_set matching the stored list
\* keys at each of its steps, so that a request that starts with the set equal
\* to the ids whose list key is stored and runs alone ends with them equal;
\* and the set changes only by create_list adding its id and delete_list
\* removing its id.
C19_AloneKeepsSetMatching ==
    [][/\ (MatchesAlone /\ Cardinality({t \in Threads : th'[t].pc # "idle"}) <= 1)
             => MatchesAlone'
       /\ task_list_id_set' # task_list_id_set =>
             \E t \in Threads :
                \/ /\ At(t, "create_list_add")
                   /\ task_list_id_set' = task_list_id_set \cup {th[t].list_id}
                \/ /\ At(t, "delete_list_remove")
                   /\ task_list_id_set' = task_list_id_set \ {th[t].list_id}]_vars

\* delete_list has answered, nothing is in progress, and the set, not empty,
\* is the set of ids whose list key is stored
C19_Witness ==
    /\ AllIdle
    /\ response.op = "delete_list" /\ response.ret = "200"
    /\ task_list_id_set # {}
    /\ task_list_id_set = StoredListIds

\* The step ends a request of one of the seven operations with NotFound or
\* AlreadyExists
FailedRequest ==
    /\ response'.ret \in {"404 list", "404 task", "409"}
    /\ response'.op \in {"create_list", "get_list", "delete_list", "add_task",
                         "edit_task", "get_task", "delete_task"}
    /\ \/ response' # response
       \/ \E t \in Threads : th[t].pc # "idle" /\ th'[t].pc = "idle"

\* C20: one at a time, a request that ends with NotFound or AlreadyExists
\* has set no key, deleted no key and left task_list_id_set alone: it fails at
\* its first check, or at its second check after a first check that changed
\* nothing, and the failing step changes nothing either.
C20_FailedRequestChangesNothing ==
    [][/\ FailedRequest =>
             /\ cache' = cache /\ task_list_id_set' = task_list_id_set
             /\ \A t \in Threads :
                   th[t].pc \in {"idle", "add_task_check", "delete_task_delete"}
       /\ \A t \in Threads :
             (th[t].pc = "idle" /\ th'[t].pc \in {"add_task_check", "delete_task_delete"}) =>
                 cache' = cache /\ task_list_id_set' = task_list_id_set]_vars

\* delete_task answered 404 for a task whose key is gone while the stored
\* list still holds its id
C20_Witness ==
    /\ AllIdle
    /\ response.op = "delete_task" /\ response.ret = "404 task"
    /\ Has(cache, task_list_key(response.list_id))
    /\ response.task_id \in Elems(Members(cache, response.list_id))
    /\ response.list_id \in task_list_id_set

====
